---- MODULE Spec2Model ----
(***************************************************************************)
(* Model of analyze_users.py: load a CSV of user records, aggregate salary *)
(* statistics, occupation ranking and email-domain counts, and write a     *)
(* Markdown report.  One run of the script is one pass                     *)
(*    load -> aggregate -> open -> write* -> close -> print -> done.       *)
(*                                                                         *)
(* Text is modelled as a sequence of one-character strings, so that        *)
(* str.split('@') is computed and not assumed.  A missing value (NaN) of a *)
(* text column is the empty option <<>>, a present value v is <<v>>.  A    *)
(* number is the exact rational [num, den]; den = 0 is NaN.                *)
(***************************************************************************)
EXTENDS Integers, Sequences, FiniteSets, TLC

\* ------------------------------------------------------------------ bounds
MaxRows == 2            \* rows of a table of the pipeline specification
MaxSalary == 3          \* salaries are 0..MaxSalary in SpecSalary
MaxSalaryRows == 4      \* rows of a table in SpecSalary
MaxOccupationRows == 4  \* rows of a table in SpecOccupation
MaxEmailLen == 2        \* characters of an email in SpecEmail
MaxEmailRows == 2       \* rows of a table in SpecEmail
MaxRuns == 2            \* runs of the script on the same input

\* --------------------------------------------------------- program constants
INPUT_FILE == "data/user_data4.csv"
OUTPUT_FILE == "user_analysis.md"
RequiredColumns == {"salary", "occupation", "email"}
Occupations == {"Engineer", "Manager", "Analyst", "Clerk"}
At == "@"
Alphabet == {"a", At}

\* ------------------------------------------------------------ small helpers
Min2(a, b) == IF a <= b THEN a ELSE b
Max2(a, b) == IF a >= b THEN a ELSE b
Range(s) == {s[i] : i \in 1..Len(s)}
SeqsUpTo(S, n) == UNION {[1..k -> S] : k \in 0..n}
Perms(k) == {p \in [1..k -> 1..k] : \A i, j \in 1..k : p[i] = p[j] => i = j}

NaN == [num |-> 0, den |-> 0]
Rat(n, d) == [num |-> n, den |-> d]
IsNaN(x) == x.den = 0
\* x <= y for two rationals with positive denominators
Leq(x, y) == x.num * y.den <= y.num * x.den

RECURSIVE SumSeq(_)
SumSeq(s) == IF s = <<>> THEN 0 ELSE s[1] + SumSeq(Tail(s))

\* ascending insertion sort of a sequence of integers
RECURSIVE Insert(_, _)
Insert(x, s) ==
    IF s = <<>> THEN <<x>>
    ELSE IF x <= s[1] THEN <<x>> \o s
    ELSE <<s[1]>> \o Insert(x, Tail(s))

RECURSIVE SortAsc(_)
SortAsc(s) == IF s = <<>> THEN <<>> ELSE Insert(s[1], SortAsc(Tail(s)))

\* ------------------------------------------------- pandas column operations
Column(table, name) == [i \in 1..Len(table) |-> table[i][name]]

\* Series.min(): smallest element, NaN on an empty column
SeriesMin(col) ==
    IF col = <<>> THEN NaN
    ELSE Rat(CHOOSE m \in Range(col) : \A x \in Range(col) : m <= x, 1)

\* Series.max(): largest element, NaN on an empty column
SeriesMax(col) ==
    IF col = <<>> THEN NaN
    ELSE Rat(CHOOSE m \in Range(col) : \A x \in Range(col) : m >= x, 1)

\* Series.mean(): sum / count, NaN on an empty column
SeriesMean(col) ==
    IF col = <<>> THEN NaN ELSE Rat(SumSeq(col), Len(col))

\* a median that takes the middle of the column without sorting it
SeriesMedian_Unsorted(col) ==
    LET n == Len(col)
    IN  IF n = 0 THEN NaN
        ELSE IF n % 2 = 1 THEN Rat(col[(n + 1) \div 2], 1)
        ELSE Rat(col[n \div 2] + col[n \div 2 + 1], 2)

\* Series.median(): middle element of the sorted column, or the average of
\* the two middle elements when the length is even; NaN on an empty column
SeriesMedian(col) ==
    LET s == SortAsc(col)
        n == Len(col)
    IN  IF n = 0 THEN NaN
        ELSE IF n % 2 = 1 THEN Rat(s[(n + 1) \div 2], 1)
        ELSE Rat(s[n \div 2] + s[n \div 2 + 1], 2)

\* str.split('@'): the pieces of a text between the separators, all of them
RECURSIVE SplitAcc(_, _, _)
SplitAcc(s, sep, cur) ==
    IF s = <<>> THEN <<cur>>
    ELSE IF s[1] = sep THEN <<cur>> \o SplitAcc(Tail(s), sep, <<>>)
    ELSE SplitAcc(Tail(s), sep, Append(cur, s[1]))

StrSplit(s, sep) == SplitAcc(s, sep, <<>>)

\* .str[-1] in place of .str[1]: the last piece, present even without '@'
StrGet1_Last(parts) == <<parts[Len(parts)]>>

\* .str[1]: the second piece of a list, NaN when the list is shorter
StrGet1(parts) == IF Len(parts) >= 2 THEN <<parts[2]>> ELSE <<>>

\* df['email'].str.split('@').str[1]
EmailDomain(email) == StrGet1(StrSplit(email, At))

\* the distinct present values of a column in order of first appearance
RECURSIVE Uniques(_, _)
Uniques(col, seen) ==
    IF col = <<>> THEN <<>>
    ELSE IF col[1] = <<>> \/ col[1] \in seen THEN Uniques(Tail(col), seen)
    ELSE <<col[1][1]>> \o Uniques(Tail(col), seen \cup {col[1]})

CountOf(col, v) == Cardinality({i \in 1..Len(col) : col[i] = <<v>>})

\* Series.sort_values(ascending=False) with the default, non-stable sort:
\* descending count; the order among equal counts is whatever the sort of
\* the build produces, given by the rank tie[j] of the j-th distinct value
RECURSIVE SortByCount(_, _, _, _)
SortByCount(keys, col, tie, left) ==
    IF left = {} THEN <<>>
    ELSE LET first == CHOOSE i \in left : \A j \in left \ {i} :
                          \/ CountOf(col, keys[i]) > CountOf(col, keys[j])
                          \/ /\ CountOf(col, keys[i]) = CountOf(col, keys[j])
                             /\ tie[i] < tie[j]
         IN  <<[key |-> keys[first], count |-> CountOf(col, keys[first])]>>
                 \o SortByCount(keys, col, tie, left \ {first})

\* Series.value_counts(): NaN dropped, one entry per distinct value
ValueCounts(col, tie) ==
    LET keys == Uniques(col, {})
    IN  SortByCount(keys, col, tie, 1..Len(keys))

\* Series.head(3)
Head3(s) == SubSeq(s, 1, Min2(3, Len(s)))

NumDistinct(col) == Cardinality(Range(col) \ {<<>>})

OccupationColumn(table) == [i \in 1..Len(table) |-> <<table[i].occupation>>]
DomainColumn(table) == [i \in 1..Len(table) |-> EmailDomain(table[i].email)]

\* ------------------------------------------------------------- the report
Chunk(kind, key, n, d) == [kind |-> kind, key |-> key, n |-> n, d |-> d]

\* f'{x:.2f}': hundredths, rounded to nearest (half to even); NaN stays NaN
Format2f(x) ==
    IF IsNaN(x) THEN NaN
    ELSE LET q == (100 * x.num) \div x.den
             r == (100 * x.num) % x.den
         IN  IF 2 * r > x.den \/ (2 * r = x.den /\ q % 2 = 1)
             THEN Rat(q + 1, 100) ELSE Rat(q, 100)

RECURSIVE OccupationLines(_, _)
OccupationLines(top, idx) ==
    IF top = <<>> THEN <<>>
    ELSE <<Chunk("occupation", <<top[1].key>>, idx, top[1].count)>>
             \o OccupationLines(Tail(top), idx + 1)

DomainLines(counts) ==
    [i \in 1..Len(counts) |-> Chunk("domain", counts[i].key, 0, counts[i].count)]

\* the sequence of f.write() calls of the with block
Report(mn, mx, avg, med, top, doms) ==
    << Chunk("# User Data Analysis Report", <<>>, 0, 0),
       Chunk("## Salary Analysis", <<>>, 0, 0),
       Chunk("**Minimum Salary:**", <<>>, mn.num, mn.den),
       Chunk("**Maximum Salary:**", <<>>, mx.num, mx.den),
       Chunk("**Average Salary:**", <<>>, Format2f(avg).num, Format2f(avg).den),
       Chunk("**Median Salary:**", <<>>, med.num, med.den),
       Chunk("## Additional Insights", <<>>, 0, 0),
       Chunk("### Top 3 Most Common Occupations", <<>>, 0, 0) >>
    \o OccupationLines(top, 1)
    \o << Chunk("", <<>>, 0, 0),
          Chunk("### Count of Users by Email Domain", <<>>, 0, 0) >>
    \o DomainLines(doms)

\* ------------------------------------------------------------------- state
VARIABLES
    input,              \* the file at INPUT_FILE: kind, columns, rows
    tieOrder,           \* order the build's sort gives to equal counts
    outFile,            \* the file at OUTPUT_FILE: exists, content
    outBefore,          \* the file at OUTPUT_FILE when the run started
    run,                \* number of the current run
    pc,                 \* position of the run in the script
    df,                 \* the loaded table
    min_salary, max_salary, avg_salary, median_salary,
    occupation_counts, top_3_occupations, email_domain, domain_counts,
    f,                  \* the output handle: "none", "open", "closed"
    opens,              \* successful open() calls of the run
    written,            \* f.write() calls completed in the run
    stdout,             \* lines printed by the run
    stderr,             \* traceback lines of an uncaught exception
    exit_status         \* exit status of the run once pc = "done"

aggVars == <<min_salary, max_salary, avg_salary, median_salary,
             occupation_counts, top_3_occupations, email_domain, domain_counts>>
envVars == <<input, tieOrder, outBefore, run>>
vars == <<input, tieOrder, outFile, outBefore, run, pc, df, aggVars,
          f, opens, written, stdout, stderr, exit_status>>

Absent == [exists |-> FALSE, content |-> <<>>]
Stale == [exists |-> TRUE, content |-> <<Chunk("stale", <<>>, 0, 0)>>]

Csv(columns, rows) == [kind |-> "csv", columns |-> columns, rows |-> rows]
NoTable == [columns |-> {}, rows |-> <<>>]

SampleRow == [salary |-> 1, occupation |-> "Engineer", email |-> <<"a", At, "a">>]

\* inputs on which read_csv raises, or which lack a required column
FailingInputs ==
    { [kind |-> "missing", columns |-> {}, rows |-> <<>>],
      [kind |-> "empty", columns |-> {}, rows |-> <<>>],
      [kind |-> "malformed", columns |-> {}, rows |-> <<>>],
      Csv(RequiredColumns \ {"salary"}, <<>>),
      Csv(RequiredColumns \ {"email"}, <<SampleRow>>) }

Inputs(tables) == FailingInputs \cup {Csv(RequiredColumns, t) : t \in tables}

TieSize(rows) ==
    Max2(1, Max2(NumDistinct(OccupationColumn(rows)),
                 NumDistinct(DomainColumn(rows))))

Line(msg, path) == [msg |-> msg, path |-> path]

RunStart ==
    /\ pc = "load"
    /\ df = NoTable
    /\ min_salary = NaN /\ max_salary = NaN
    /\ avg_salary = NaN /\ median_salary = NaN
    /\ occupation_counts = <<>> /\ top_3_occupations = <<>>
    /\ email_domain = <<>> /\ domain_counts = <<>>
    /\ f = "none" /\ opens = 0 /\ written = 0
    /\ stdout = <<>> /\ stderr = <<>> /\ exit_status = 0

InitWith(tables, outputs) ==
    /\ input \in Inputs(tables)
    /\ tieOrder \in Perms(TieSize(input.rows))
    /\ outFile \in outputs
    /\ outBefore = outFile
    /\ run = 1
    /\ RunStart

PipelineRows ==
    [salary : {1, 2}, occupation : {"Engineer", "Manager"},
     email : {<<"a", At, "a">>, <<"a">>}]
SalaryRows ==
    [salary : 0..MaxSalary, occupation : {"Engineer"}, email : {<<"a", At, "a">>}]
OccupationRows ==
    [salary : {1}, occupation : Occupations, email : {<<"a", At, "a">>}]
EmailRows ==
    [salary : {1}, occupation : {"Engineer"},
     email : SeqsUpTo(Alphabet, MaxEmailLen) \ {<<>>}]

Init == InitWith(SeqsUpTo(PipelineRows, MaxRows), {Absent, Stale})
InitSalary == InitWith(SeqsUpTo(SalaryRows, MaxSalaryRows), {Absent})
InitOccupation == InitWith(SeqsUpTo(OccupationRows, MaxOccupationRows), {Absent})
InitEmail == InitWith(SeqsUpTo(EmailRows, MaxEmailRows), {Absent})

\* ------------------------------------------------------------------ loader
Exit(status) == pc' = "done" /\ exit_status' = status

\* pd.read_csv succeeds: a header-only file gives a table with no rows
LoadOk ==
    /\ pc = "load" /\ input.kind = "csv"
    /\ df' = [columns |-> input.columns, rows |-> input.rows]
    /\ pc' = "aggregate"
    /\ UNCHANGED <<envVars, outFile, aggVars, f, opens, written,
                   stdout, stderr, exit_status>>

LoadFailed(kind, msg) ==
    /\ pc = "load" /\ input.kind = kind
    /\ stdout' = Append(stdout, Line(msg, INPUT_FILE))
    /\ Exit(1)
    /\ UNCHANGED <<envVars, outFile, df, aggVars, f, opens, written, stderr>>

\* the handler of FileNotFoundError exiting with status 0
LoadNotFound_ExitZero ==
    /\ pc = "load" /\ input.kind = "missing"
    /\ stdout' = Append(stdout, Line("Error: File not found.", INPUT_FILE))
    /\ Exit(0)
    /\ UNCHANGED <<envVars, outFile, df, aggVars, f, opens, written, stderr>>

LoadNotFound == LoadFailed("missing", "Error: File not found.")
\* EmptyDataError: the file has no columns to parse
LoadEmpty == LoadFailed("empty", "Error: File is empty.")
LoadOther == LoadFailed("malformed", "Error reading")

\* -------------------------------------------------------------- aggregator
Aggregate ==
    /\ pc = "aggregate" /\ RequiredColumns \subseteq df.columns
    /\ LET salary == Column(df.rows, "salary")
           domains == DomainColumn(df.rows)
           counts == ValueCounts(OccupationColumn(df.rows), tieOrder)
       IN  /\ min_salary' = SeriesMin(salary)
           /\ max_salary' = SeriesMax(salary)
           /\ avg_salary' = SeriesMean(salary)
           /\ median_salary' = SeriesMedian(salary)
           /\ occupation_counts' = counts
           /\ top_3_occupations' = Head3(counts)
           /\ email_domain' = domains
           /\ domain_counts' = ValueCounts(domains, tieOrder)
    /\ pc' = "open"
    /\ UNCHANGED <<envVars, outFile, df, f, opens, written,
                   stdout, stderr, exit_status>>

\* df['salary'] / df['email'] on a table without that column: KeyError, which
\* no handler catches; the interpreter prints a traceback and exits with 1
AggregateKeyError ==
    /\ pc = "aggregate" /\ ~(RequiredColumns \subseteq df.columns)
    /\ stderr' = Append(stderr, Line("Traceback: KeyError", INPUT_FILE))
    /\ Exit(1)
    /\ UNCHANGED <<envVars, outFile, df, aggVars, f, opens, written, stdout>>

\* ---------------------------------------------------------------- reporter
ReportChunks ==
    Report(min_salary, max_salary, avg_salary, median_salary,
           top_3_occupations, domain_counts)

\* open(OUTPUT_FILE, 'a'): creates the file or keeps what it holds
Open_Append ==
    /\ pc = "open"
    /\ f' = "open" /\ opens' = opens + 1
    /\ outFile' = [exists |-> TRUE, content |-> outFile.content]
    /\ pc' = "write"
    /\ UNCHANGED <<envVars, df, aggVars, written, stdout, stderr, exit_status>>

\* open(OUTPUT_FILE, 'w'): creates the file or truncates it
Open ==
    /\ pc = "open"
    /\ f' = "open" /\ opens' = opens + 1
    /\ outFile' = [exists |-> TRUE, content |-> <<>>]
    /\ pc' = "write"
    /\ UNCHANGED <<envVars, df, aggVars, written, stdout, stderr, exit_status>>

\* open raises IOError: no handle, file untouched
OpenFail ==
    /\ pc = "open"
    /\ pc' = "except"
    /\ UNCHANGED <<envVars, outFile, df, aggVars, f, opens, written,
                   stdout, stderr, exit_status>>

\* the next f.write() of the with block
Write ==
    /\ pc = "write" /\ f = "open" /\ written < Len(ReportChunks)
    /\ outFile' = [outFile EXCEPT !.content = Append(@, ReportChunks[written + 1])]
    /\ written' = written + 1
    /\ UNCHANGED <<envVars, pc, df, aggVars, f, opens, stdout, stderr, exit_status>>

\* a failing f.write() without the with block: the handle stays open
WriteFail_Leak ==
    /\ pc = "write" /\ f = "open" /\ written < Len(ReportChunks)
    /\ pc' = "except"
    /\ UNCHANGED <<envVars, outFile, df, aggVars, f, opens, written,
                   stdout, stderr, exit_status>>

\* the next f.write() raises IOError: the with block closes the handle and
\* the exception reaches the handler; what was written stays in the file
WriteFail ==
    /\ pc = "write" /\ f = "open" /\ written < Len(ReportChunks)
    /\ f' = "closed"
    /\ pc' = "except"
    /\ UNCHANGED <<envVars, outFile, df, aggVars, opens, written,
                   stdout, stderr, exit_status>>

\* end of the with block
Close ==
    /\ pc = "write" /\ f = "open" /\ written = Len(ReportChunks)
    /\ f' = "closed"
    /\ pc' = "print"
    /\ UNCHANGED <<envVars, outFile, df, aggVars, opens, written,
                   stdout, stderr, exit_status>>

Confirm ==
    /\ pc = "print"
    /\ stdout' = Append(stdout, Line("Analysis complete! Report saved to", OUTPUT_FILE))
    /\ Exit(0)
    /\ UNCHANGED <<envVars, outFile, df, aggVars, f, opens, written, stderr>>

HandleIOError ==
    /\ pc = "except"
    /\ stdout' = Append(stdout, Line("Error writing to", OUTPUT_FILE))
    /\ Exit(1)
    /\ UNCHANGED <<envVars, outFile, df, aggVars, f, opens, written, stderr>>

\* the script is started again on the unchanged input after a successful run
Rerun ==
    /\ pc = "done" /\ exit_status = 0 /\ run < MaxRuns
    /\ run' = run + 1
    /\ outBefore' = outFile
    /\ pc' = "load"
    /\ df' = NoTable
    /\ min_salary' = NaN /\ max_salary' = NaN
    /\ avg_salary' = NaN /\ median_salary' = NaN
    /\ occupation_counts' = <<>> /\ top_3_occupations' = <<>>
    /\ email_domain' = <<>> /\ domain_counts' = <<>>
    /\ f' = "none" /\ opens' = 0 /\ written' = 0
    /\ stdout' = <<>> /\ stderr' = <<>> /\ exit_status' = 0
    /\ UNCHANGED <<input, tieOrder, outFile>>

Next ==
    \/ LoadOk \/ LoadNotFound \/ LoadEmpty \/ LoadOther
    \/ Aggregate \/ AggregateKeyError
    \/ Open \/ OpenFail \/ Write \/ WriteFail \/ Close
    \/ Confirm \/ HandleIOError
    \/ Rerun

Spec == Init /\ [][Next]_vars
SpecSalary == InitSalary /\ [][Next]_vars
SpecOccupation == InitOccupation /\ [][Next]_vars
SpecEmail == InitEmail /\ [][Next]_vars

TypeOK ==
    /\ pc \in {"load", "aggregate", "open", "write", "print", "except", "done"}
    /\ f \in {"none", "open", "closed"}
    /\ exit_status \in {0, 1}
    /\ run \in 1..MaxRuns

\* ---------------------------------------------------------------- properties
\* the aggregation of the current run has been computed
Aggregated == RequiredColumns \subseteq df.columns /\ pc # "aggregate"

AggregatesOf(rows, tie) ==
    Report(SeriesMin(Column(rows, "salary")), SeriesMax(Column(rows, "salary")),
           SeriesMean(Column(rows, "salary")), SeriesMedian(Column(rows, "salary")),
           Head3(ValueCounts(OccupationColumn(rows), tie)),
           ValueCounts(DomainColumn(rows), tie))

CompleteReport == opens > 0 /\ outFile.exists /\ outFile.content = ReportChunks

ConfirmLine == Line("Analysis complete! Report saved to", OUTPUT_FILE)
Diagnostics ==
    { Line("Error: File not found.", INPUT_FILE),
      Line("Error: File is empty.", INPUT_FILE),
      Line("Error reading", INPUT_FILE),
      Line("Error writing to", OUTPUT_FILE) }

HeaderOnly ==
    input.kind = "csv" /\ input.columns = RequiredColumns /\ input.rows = <<>>

HasAt(email) == At \in Range(email)
NumAt(email) == Cardinality({i \in 1..Len(email) : email[i] = At})

\* the text after the first '@' of a text that has one
RECURSIVE AfterFirstAt(_)
AfterFirstAt(s) ==
    IF s = <<>> THEN <<>>
    ELSE IF s[1] = At THEN Tail(s)
    ELSE AfterFirstAt(Tail(s))

RECURSIVE SumCounts(_)
SumCounts(counts) ==
    IF counts = <<>> THEN 0 ELSE counts[1].count + SumCounts(Tail(counts))

\* C1: a run that ends with exit status 1 leaves user_analysis.md either
\* exactly as it was before the run or holding the complete report.
C1_AllOrNothing ==
    (pc = "done" /\ exit_status = 1) => (outFile = outBefore \/ CompleteReport)

\* C2: on a header-only input the run ends in EmptyInput (diagnostic "is
\* empty", status 1), the reporter is never reached and the output file is
\* neither created nor modified.
C2_HeaderOnlyIsEmptyInput ==
    HeaderOnly =>
        /\ opens = 0 /\ f = "none" /\ outFile = outBefore
        /\ pc \notin {"open", "write", "print", "except"}
        /\ pc = "done" =>
              exit_status = 1 /\ stdout = <<Line("Error: File is empty.", INPUT_FILE)>>

\* C3: an input-side failure ends with status 1 after one diagnostic naming
\* the input path, with the output file untouched; the output file is opened
\* or changed only after the loader and the aggregator have both completed.
C3_InputFailureLeavesOutput ==
    /\ (pc = "done" /\ input.kind \in {"missing", "empty", "malformed"}) =>
          /\ exit_status = 1
          /\ Len(stdout) = 1 /\ stdout[1].path = INPUT_FILE
          /\ outFile = outBefore /\ opens = 0 /\ f = "none"
    /\ (opens > 0 \/ f # "none" \/ outFile # outBefore) =>
          /\ Aggregated
          /\ df.rows = input.rows
          /\ top_3_occupations = Head3(occupation_counts)
          /\ Len(email_domain) = Len(df.rows)
          /\ IsNaN(min_salary) <=> df.rows = <<>>

C3_Witness ==
    /\ pc = "done" /\ input.kind \in {"missing", "empty", "malformed"}
    /\ outFile = Stale /\ Len(stdout) = 1

\* C4: every terminated run is either a success (full report, exactly the
\* confirmation line, status 0, file closed) or a failure of one of the
\* four kinds (exactly one diagnostic line, no confirmation, status 1).
C4_TwoOutcomeClasses ==
    pc = "done" =>
        \/ /\ exit_status = 0
           /\ stdout = <<ConfirmLine>> /\ stderr = <<>>
           /\ CompleteReport /\ f = "closed"
        \/ /\ exit_status = 1
           /\ Len(stdout) = 1 /\ stdout[1] \in Diagnostics /\ stderr = <<>>

\* C5: the domain of an email is everything after its first '@', further
\* '@' characters included.
C5_DomainIsRestAfterFirstAt ==
    Aggregated =>
        \A i \in 1..Len(df.rows) :
            HasAt(df.rows[i].email) =>
                email_domain[i] = <<AfterFirstAt(df.rows[i].email)>>

\* C6: the occupation ranking of the report is the first min(3, k) of the k
\* distinct occupations by descending count, equal counts in order of first
\* appearance, rendered with ranks 1..min(3, k).
OccupationsOf(rows) == {rows[i].occupation : i \in 1..Len(rows)}
OccurrencesOf(rows, o) == Cardinality({i \in 1..Len(rows) : rows[i].occupation = o})
FirstAppearance(rows, o) ==
    CHOOSE i \in 1..Len(rows) :
        rows[i].occupation = o /\ \A j \in 1..(i - 1) : rows[j].occupation # o
RankedBefore(rows, a, b) ==
    \/ OccurrencesOf(rows, a) > OccurrencesOf(rows, b)
    \/ /\ OccurrencesOf(rows, a) = OccurrencesOf(rows, b)
       /\ FirstAppearance(rows, a) < FirstAppearance(rows, b)
RankOf(rows, o) ==
    1 + Cardinality({b \in OccupationsOf(rows) \ {o} : RankedBefore(rows, b, o)})

C6_Top3ByCountThenFirstAppearance ==
    Aggregated =>
        LET lines == OccupationLines(top_3_occupations, 1)
        IN  /\ Len(lines) = Min2(3, Cardinality(OccupationsOf(df.rows)))
            /\ \A p \in 1..Len(lines) :
                  /\ lines[p].n = p
                  /\ lines[p].key[1] \in OccupationsOf(df.rows)
                  /\ RankOf(df.rows, lines[p].key[1]) = p
                  /\ lines[p].d = OccurrencesOf(df.rows, lines[p].key[1])

\* C7: the domain counts are not truncated and sum to the number of rows
\* whose email contains an '@' (to N when every email has exactly one); a
\* row whose email has no '@' has no domain and is counted nowhere.
C7_DomainCountsCoverRowsWithAt ==
    Aggregated =>
        LET rows == df.rows
            withAt == {i \in 1..Len(rows) : HasAt(rows[i].email)}
            lines == DomainLines(domain_counts)
        IN  /\ SumCounts(domain_counts) = Cardinality(withAt)
            /\ (\A i \in 1..Len(rows) : NumAt(rows[i].email) = 1)
                   => SumCounts(domain_counts) = Len(rows)
            /\ \A i \in 1..Len(rows) : email_domain[i] = <<>> <=> i \notin withAt
            /\ \A i \in withAt : \E p \in 1..Len(lines) :
                   <<lines[p].key>> = email_domain[i]
            /\ \A p \in 1..Len(lines) :
                   /\ lines[p].d = Cardinality({i \in withAt :
                                        email_domain[i] = <<lines[p].key>>})
                   /\ lines[p].d >= 1
                   /\ \A q \in 1..Len(lines) : lines[q].key = lines[p].key => q = p

C7_Witness ==
    /\ Aggregated /\ Len(df.rows) = 2
    /\ ~HasAt(df.rows[1].email) /\ NumAt(df.rows[2].email) = 1
    /\ SumCounts(domain_counts) = 1

\* C8: on a non-empty table of integer salaries min <= median <= max and
\* min <= mean <= max, the median being the middle element of the sorted
\* salaries (odd N) or the average of the two middle elements (even N).
C8_SalarySummaryOrdered ==
    (Aggregated /\ df.rows # <<>>) =>
        LET salary == Column(df.rows, "salary")
            n == Len(salary)
            half == (n + 1) \div 2
            below == {i \in 1..n : Leq(Rat(salary[i], 1), median_salary)}
            above == {i \in 1..n : Leq(median_salary, Rat(salary[i], 1))}
        IN  /\ ~IsNaN(min_salary) /\ ~IsNaN(max_salary)
            /\ ~IsNaN(avg_salary) /\ ~IsNaN(median_salary)
            /\ Leq(min_salary, median_salary) /\ Leq(median_salary, max_salary)
            /\ Leq(min_salary, avg_salary) /\ Leq(avg_salary, max_salary)
            /\ Cardinality(below) >= half /\ Cardinality(above) >= half
            /\ (n % 2 = 1) => \E i \in 1..n : median_salary = Rat(salary[i], 1)
            /\ (n % 2 = 0) => \E i, j \in 1..n :
                   /\ i # j /\ median_salary = Rat(Min2(salary[i], salary[j])
                                                     + Max2(salary[i], salary[j]), 2)
                   /\ Cardinality({k \in 1..n : salary[k] < Min2(salary[i], salary[j])})
                          < n \div 2
                   /\ Cardinality({k \in 1..n : salary[k] > Max2(salary[i], salary[j])})
                          < n \div 2

C8_Witness ==
    /\ Aggregated /\ Len(df.rows) = 4
    /\ median_salary.den = 2 /\ median_salary.num % 2 = 1
    /\ ~Leq(median_salary, min_salary) /\ ~Leq(max_salary, median_salary)
    /\ ~Leq(avg_salary, median_salary)

\* C9: a second run on the unchanged input leaves an output file identical
\* to the one the first run left; the report of a successful run depends on
\* the input table only, not on what the output file held before.
C9_RerunIdentical ==
    (pc = "done" /\ exit_status = 0) =>
        /\ outFile = [exists |-> TRUE, content |-> AggregatesOf(input.rows, tieOrder)]
        /\ run >= 2 => outFile = outBefore

C9_Witness ==
    /\ pc = "done" /\ exit_status = 0 /\ run = 2
    /\ Len(input.rows) = 2 /\ domain_counts # <<>>

\* C10: the output handle is acquired at most once per run, is open only
\* while the writes are in progress, and is closed before any line is
\* printed and before the run ends, on every exit path.
C10_HandleReleased ==
    /\ opens <= 1
    /\ f = "open" => (pc = "write" /\ opens = 1 /\ stdout = <<>>)
    /\ pc \in {"print", "except", "done"} => f # "open"
    /\ (opens = 1 /\ pc \in {"print", "except", "done"}) => f = "closed"
    /\ opens = 0 => f = "none"
    /\ stdout # <<>> => f # "open"

C10_Witness ==
    /\ pc = "done" /\ exit_status = 1 /\ f = "closed"
    /\ written >= 1 /\ written < Len(ReportChunks)
    /\ stdout = <<Line("Error writing to", OUTPUT_FILE)>>

====
